---------------------------- MODULE Spec2Model ----------------------------
(***************************************************************************)
(* Figure-skating score calculator: the SOV table adapter (basevalues.js)  *)
(* and the scoring / form logic (script, src/unnamed/part_000).           *)
(*                                                                         *)
(* Numbers.  Every score is a decimal with at most six fractional digits   *)
(* (base values are whole cents; the factors 1.1, 0.7, 0.6, 0.75, 0.8,     *)
(* 0.1 and 0.5 add at most four more), so a JavaScript number is modelled  *)
(* as an integer count of millionths, exactly.  undefined and NaN are      *)
(* values of their own, and a thrown error is an outcome of its own.       *)
(* Binary floating-point rounding noise is not modelled.                   *)
(***************************************************************************)
EXTENDS Integers, Sequences, FiniteSets, TLC

VARIABLES
    SOV,            \* basevalues.js:4    the loaded reference table, or null
    buffer,         \* part_000:4-23      the element being entered (list of parts)
    elements,       \* part_000:35        one entry per table row
    editingIndex,   \* part_000:37        row being edited (0-based) or null
    tes,            \* part_000:27
    pcs,            \* part_000:28
    pcsFactor,      \* part_000:29
    pcsTotal,       \* part_000:30
    tss,            \* part_000:31
    deduct,         \* part_000:32
    dom,            \* the parts of the page the handlers read back
    app,            \* progress of the DOMContentLoaded handler
    inits,          \* the initSOV invocations in flight
    fetches,        \* number of fetches of the reference document issued
    call            \* the last direct call of a function and its outcome

vars == <<SOV, buffer, elements, editingIndex, tes, pcs, pcsFactor, pcsTotal,
          tss, deduct, dom, app, inits, fetches, call>>

-----------------------------------------------------------------------------
(* JavaScript values                                                       *)

Unit == 10^6                      \* millionths in 1.0
Cent == 10^4                      \* millionths in 0.01

Num(v) == [k |-> "num", v |-> v]
NaN == [k |-> "nan", v |-> 0]
Undefined == [k |-> "undef", v |-> 0]
Thrown == [k |-> "throw", v |-> 0]

Cents(c) == Num(c * Cent)

IsNum(a) == a.k = "num"
IsThrown(a) == a.k = "throw"

\* a * (n/d) for the decimal literal n/d; undefined and NaN give NaN
Times(a, n, d) == IF IsNum(a) THEN Num((a.v * n) \div d) ELSE NaN

\* a + b
Plus(a, b) == IF IsNum(a) /\ IsNum(b) THEN Num(a.v + b.v) ELSE NaN

\* Math.round(a * 1000 / 10) / 100 : Math.round is floor(x + 0.5)
Round2(a) == IF IsNum(a) THEN Num(((a.v + (Cent \div 2)) \div Cent) * Cent) ELSE NaN

\* Math.max(...list) of a non-empty list: NaN as soon as one argument is not a number
RECURSIVE MathMax(_)
MathMax(list) ==
    IF Len(list) = 1
    THEN (IF IsNum(list[1]) THEN list[1] ELSE NaN)
    ELSE LET m == MathMax(Tail(list))
             h == list[1]
         IN IF ~IsNum(h) \/ ~IsNum(m) THEN NaN
            ELSE IF h.v >= m.v THEN h ELSE m

NULL == "null"                    \* JavaScript null (as a property key it reads "null")

\* parseInt of the strings the buttons carry: digits parse, anything else is NaN
Digits == 0..9
ParseInt(s) ==
    IF \E n \in Digits : ToString(n) = s
    THEN Num((CHOOSE n \in Digits : ToString(n) = s) * Unit)
    ELSE NaN

\* String(x) of a whole number, as used for a computed property key
KeyOf(a) == IF IsNum(a) THEN ToString(a.v \div Unit) ELSE "NaN"

-----------------------------------------------------------------------------
(* The reference document: element code -> base value and GOE deltas.      *)
(* The JSON file itself is data outside the repository's code; the tables  *)
(* below are the documents the model loads.                                *)

GoeRange == (0 - 5)..5

GoeMap(base) == [g \in {ToString(n) : n \in GoeRange \ {0}} |->
                    Cents((base * (CHOOSE n \in GoeRange : ToString(n) = g)) \div 10)]

Entry(base) == [base |-> Cents(base), goe |-> GoeMap(base)]

\* an entry whose GOE table lacks the +-4 and +-5 columns
ShortEntry(base) ==
    [base |-> Cents(base),
     goe |-> [g \in {"-3", "-2", "-1", "1", "2", "3"} |-> GoeMap(base)[g]]]

TableA ==
    [kind |-> "table",
     elements |->
        ("1T" :> Entry(40) @@ "2T" :> Entry(130) @@ "3T" :> Entry(420) @@
         "1Lz" :> Entry(60) @@ "2Lz" :> Entry(210) @@ "3Lz" :> Entry(590) @@
         "1Eu" :> Entry(50) @@
         "CSp1" :> Entry(140) @@ "CSp2" :> Entry(180) @@
         "FCSp1" :> Entry(190) @@ "FCSp2" :> Entry(230) @@
         "CCSp1" :> Entry(200) @@ "CCSp2" :> Entry(230) @@
         "StSq1" :> Entry(180) @@ "StSq2" :> Entry(260) @@
         "ChSq1" :> Entry(300))]

\* a sparser document: no triple toe loop, no double Lutz, no camel spin of
\* level 2 (plain, flying or change of foot), no step sequence level 2, no
\* choreographic sequence
TableB ==
    [kind |-> "table",
     elements |->
        ("1T" :> Entry(40) @@ "2T" :> ShortEntry(130) @@
         "1Lz" :> Entry(60) @@ "3Lz" :> Entry(595) @@
         "CSp1" :> Entry(145) @@
         "FCSp1" :> Entry(190) @@
         "CCSp1" :> ShortEntry(200) @@
         "StSq1" :> Entry(185))]

\* a short document for the page: a double Lutz and a camel spin of level
\* 2, GOE columns -1 and +1 only, and no step sequence
BriefEntry(base) ==
    [base |-> Cents(base), goe |-> [g \in {"-1", "1"} |-> GoeMap(base)[g]]]
TableC ==
    [kind |-> "table",
     elements |-> ("2Lz" :> BriefEntry(210) @@ "CSp2" :> BriefEntry(180))]

NullSOV == [kind |-> "null", elements |-> <<>>]

Tables == {TableA, TableB}

Codes(sov) == IF sov.kind = "table" THEN DOMAIN sov.elements ELSE {}

-----------------------------------------------------------------------------
(* basevalues.js: the lookup API                                           *)


\* getBase without the guard: an unknown code reads as undefined
getBaseLenient(sov, code) ==
    IF code \notin Codes(sov) THEN Undefined
    ELSE sov.elements[code].base

\* getBase(code): throws for a code the table does not hold
getBase(sov, code) ==
    IF code \notin Codes(sov) THEN Thrown
    ELSE sov.elements[code].base


\* getDelta without the early return for GOE 0
getDeltaNoZero(sov, code, goe) ==
    IF code \notin Codes(sov) THEN Thrown
    ELSE LET key == ToString(goe)
             e == sov.elements[code]
         IN IF key \notin DOMAIN e.goe THEN Thrown ELSE e.goe[key]

\* getDelta(code, goe): zero GOE returns 0 before any lookup
getDelta(sov, code, goe) ==
    IF goe = 0 THEN Num(0)
    ELSE IF code \notin Codes(sov) THEN Thrown
    ELSE LET key == ToString(goe)
             e == sov.elements[code]
         IN IF key \notin DOMAIN e.goe THEN Thrown ELSE e.goe[key]

\* getScore(code, goe) = round2(getBase + getDelta); either throw propagates
getScore(sov, code, goe) ==
    LET b == getBase(sov, code)
    IN IF IsThrown(b) THEN Thrown
       ELSE LET d == getDelta(sov, code, goe)
            IN IF IsThrown(d) THEN Thrown ELSE Round2(Plus(b, d))


-----------------------------------------------------------------------------
(* basevalues.js: the compatibility adapter basevalues[prop][index]        *)

JumpNames == {"A", "T", "S", "Lo", "F", "Lz", "Eu"}
LevelNames == {"StSq", "USp", "LSp", "CSp", "SSp", "CoSp"}

\* the level strings the form can put after a spin or sequence name
Lods == {"0", "1", "2", "3"}

\* level.match(/^[FC]/), level[0], level.slice(1): the ways to read `level`
\* as a modifier letter followed by a level
SplitFC(level) ==
    {<<m, r>> \in {"F", "C"} \X (Lods \cup {""}) : level = m \o r}


\* the inner proxy of a jump letting the lookup error through
JumpGetRethrow(sov, prop, index) ==
    LET rotation == ParseInt(index)
    IN IF ~IsNum(rotation) \/ rotation.v < 0 THEN Undefined
       ELSE IF rotation.v = 0 THEN Num(0)
       ELSE getBase(sov, KeyOf(rotation) \o prop)

\* the inner proxy of a jump: index is the rotation count
JumpGet(sov, prop, index) ==
    LET rotation == ParseInt(index)
    IN IF ~IsNum(rotation) \/ rotation.v < 0 THEN Undefined
       ELSE IF rotation.v = 0 THEN Num(0)
       ELSE LET b == getBase(sov, KeyOf(rotation) \o prop)
            IN IF IsThrown(b) THEN Undefined ELSE b

\* the inner proxy of ChSq
ChSqGet(sov, index) ==
    IF index = "0" THEN Num(0)
    ELSE IF index = "1"
         THEN LET b == getBase(sov, "ChSq1")
              IN IF IsThrown(b) THEN Cents(300) ELSE b
         ELSE Undefined


\* the modifier letter put after the spin name instead of before it
LevelCodeSuffixed(prop, level) ==
    IF prop = "StSq" THEN prop \o level
    ELSE IF SplitFC(level) # {}
         THEN LET mr == CHOOSE x \in SplitFC(level) : TRUE
              IN prop \o mr[1] \o mr[2]
         ELSE prop \o level

\* the code a spin / step-sequence level designates
LevelCode(prop, level) ==
    IF prop = "StSq" THEN prop \o level
    ELSE IF SplitFC(level) # {}
         THEN LET mr == CHOOSE x \in SplitFC(level) : TRUE
              IN mr[1] \o prop \o mr[2]
         ELSE prop \o level

\* the inner proxy of a spin or of the step sequence
LevelGet(sov, prop, level) ==
    IF level = "0" THEN Num(0)
    ELSE IF prop # "StSq" /\ \E mr \in SplitFC(level) : mr[2] = "0" THEN Num(0)
    ELSE LET b == getBase(sov, LevelCode(prop, level))
         IN IF IsThrown(b) THEN Num(0) ELSE b

\* basevalues[prop][index]; reading an index of undefined is a TypeError
basevalues(sov, prop, index) ==
    IF sov.kind = "null" THEN Thrown
    ELSE IF prop \in JumpNames THEN JumpGet(sov, prop, index)
    ELSE IF prop = "ChSq" THEN ChSqGet(sov, index)
    ELSE IF prop \in LevelNames THEN LevelGet(sov, prop, index)
    ELSE Thrown

-----------------------------------------------------------------------------
(* part_000: scoring one element                                           *)

\* one part of an element, as clearEntry / addJump create it.  A part pushed
\* by addJump has no bonus and no goe property; neither is ever read from a
\* part other than the first, so they are carried here as false and 0.
NewPart ==
    [type |-> NULL, name |-> NULL, lod |-> "0",
     ur |-> FALSE, dg |-> FALSE, edge |-> FALSE, rep |-> FALSE,
     spinV |-> FALSE, fly |-> FALSE, cof |-> FALSE, bonus |-> FALSE,
     invalid |-> FALSE, goe |-> 0,
     bv |-> Num(0), bvForGOECalculation |-> Num(0),
     bvForScoreCalculation |-> Num(0)]

\* JSON.parse(JSON.stringify(x)) of a list of parts: a new list of new
\* objects.  Strings, booleans, null and finite numbers survive the round
\* trip; NaN comes back as null; a property holding undefined is dropped,
\* so that reading it afterwards gives undefined again.
Null == [k |-> "null", v |-> 0]
JSONValue(a) == IF a.k = "nan" THEN Null ELSE a
JSONPart(p) == [f \in DOMAIN p |->
                   IF f \in {"bv", "bvForGOECalculation", "bvForScoreCalculation"}
                   THEN JSONValue(p[f])
                   ELSE p[f]]
JSONClone(parts) == [i \in 1..Len(parts) |-> JSONPart(parts[i])]


\* const local = parts: no copy, `local` is the argument
LocalAlias(parts) == [obj |-> "parts", val |-> parts]

\* line 756, const local = JSON.parse(JSON.stringify(parts)): the object
\* `local` designates ("new": a fresh copy, "parts": the argument itself)
\* and its content
LocalOf(parts) == [obj |-> "new", val |-> JSONClone(parts)]

\* lines 761-780: the base value of one part
PartBV(sov, p) ==
    IF p.invalid THEN Num(0)
    ELSE IF p.type = "jump"
         THEN LET lodInt == ParseInt(p.lod)
              IN IF p.dg /\ lodInt # Num(0)
                 THEN basevalues(sov, p.name, KeyOf(Plus(lodInt, Num(0 - Unit))))
                 ELSE basevalues(sov, p.name, p.lod)
    ELSE IF p.type = "seq" THEN basevalues(sov, p.name, p.lod)
    ELSE IF p.cof THEN basevalues(sov, p.name, "C" \o p.lod)
    ELSE IF p.fly THEN basevalues(sov, p.name, "F" \o p.lod)
    ELSE basevalues(sov, p.name, p.lod)

\* lines 786-788 and 793-796: the under-rotation / edge / spin-V factor
CallFactor(p, a) ==
    IF p.ur /\ p.edge THEN Times(a, 6, 10)
    ELSE IF p.spinV THEN Times(a, 75, 100)
    ELSE IF p.ur \/ p.edge THEN Times(a, 8, 10)
    ELSE a


\* the bonus read from the part itself instead of from the first part
BVForScoreOwnBonus(p, bonus) ==
    LET a0 == p.bv
        a1 == IF p.bonus THEN Times(a0, 11, 10) ELSE a0
        a2 == IF p.rep THEN Times(a1, 7, 10) ELSE a1
    IN CallFactor(p, a2)

\* lines 783-788: the part's share of the base value
BVForScore(p, bonus) ==
    LET a0 == p.bv
        a1 == IF bonus THEN Times(a0, 11, 10) ELSE a0
        a2 == IF p.rep THEN Times(a1, 7, 10) ELSE a1
    IN CallFactor(p, a2)

\* lines 792-800: the value the GOE is a percentage of
BVForGOE(p) ==
    Round2(IF p.name # "ChSq" THEN CallFactor(p, p.bv) ELSE p.bv)

\* lines 759-802: the loop over the parts of `local`, from part i on.
\* Returns the parts as the loop leaves them, the running sum, the list of
\* GOE bases, and whether a lookup threw.
RECURSIVE ScoreLoop(_, _, _, _, _)
ScoreLoop(sov, local, i, sum, list) ==
    IF i > Len(local)
    THEN [thrown |-> FALSE, local |-> local, sum |-> sum, list |-> list]
    ELSE LET b == PartBV(sov, local[i])
         IN IF IsThrown(b)
            THEN [thrown |-> TRUE, local |-> local, sum |-> sum, list |-> list]
            ELSE LET p1 == [local[i] EXCEPT !.bv = b]
                     p2 == [p1 EXCEPT !.bvForScoreCalculation =
                                          BVForScore(p1, local[1].bonus)]
                     p3 == [p2 EXCEPT !.bvForGOECalculation = BVForGOE(p2)]
                 IN ScoreLoop(sov, [local EXCEPT ![i] = p3], i + 1,
                              Plus(sum, p3.bvForScoreCalculation),
                              Append(list, p3.bvForGOECalculation))


\* the GOE taken as a percentage of the first part instead of the maximum
GoeValueOfFirst(local, list) ==
    LET goe == local[1].goe
    IN Round2(IF local[1].name = "ChSq" THEN Num(goe * (Unit \div 2))
              ELSE IF goe # 0 THEN Times(list[1], goe, 10)
              ELSE Num(0))

\* lines 804-813: the GOE value of the element
GoeValue(local, list) ==
    LET goe == local[1].goe
    IN Round2(IF local[1].name = "ChSq" THEN Num(goe * (Unit \div 2))
              ELSE IF goe # 0 THEN Times(MathMax(list), goe, 10)
              ELSE Num(0))

NoResult == [k |-> "throw", totalBV |-> NaN, goe |-> 0, goeValue |-> NaN,
             totalScore |-> NaN]

\* lines 804-817: the returned record
ResultOf(run) ==
    IF run.thrown THEN NoResult
    ELSE LET goeValue == GoeValue(run.local, run.list)
         IN [k |-> "ok",
             totalBV |-> Round2(run.sum),
             goe |-> run.local[1].goe,
             goeValue |-> goeValue,
             totalScore |-> Round2(Plus(run.sum, goeValue))]

\* computeElementResult(parts), lines 755-818: the returned record (ret) and
\* the argument object as the call leaves it (parts)
ComputeCall(sov, parts) ==
    LET local == LocalOf(parts)
        run == ScoreLoop(sov, local.val, 1, Num(0), <<>>)
    IN [ret |-> ResultOf(run),
        parts |-> IF local.obj = "parts" THEN run.local ELSE parts]

computeElementResult(sov, parts) == ComputeCall(sov, parts).ret

-----------------------------------------------------------------------------
(* Values of the page state before anything happened (part_000:4-37)       *)

NullIndex == 0 - 1                \* editingIndex = null
Buffer0 == <<NewPart>>
Pcs0 == [i \in 0..4 |-> Num(0)]
PcsFactor0 == Num(167 * Cent)
\* the page: the element-score cell of every rendered row, and which of
\* the buttons are enabled (initApp, part_000:73-76, disables all four)
Dom0 == [rows |-> <<>>, addElement |-> FALSE, addJump |-> FALSE,
         setEdge |-> FALSE, setSpinV |-> FALSE]

\* the DOMContentLoaded handler: not yet run, awaiting initSOV, ready
\* (initApp done), failed (alert shown); edits counts the field inputs made
App0 == [pc |-> "start", alerted |-> FALSE, initApp |-> FALSE, edits |-> 0]

PageUntouched ==
    /\ buffer = Buffer0
    /\ elements = <<>>
    /\ editingIndex = NullIndex
    /\ tes = Num(0)
    /\ pcs = Pcs0
    /\ pcsFactor = PcsFactor0
    /\ pcsTotal = Num(0)
    /\ tss = Num(0)
    /\ deduct = Num(0)
    /\ dom = Dom0

pageVars == <<buffer, elements, editingIndex, tes, pcs, pcsFactor, pcsTotal,
              tss, deduct, dom>>

-----------------------------------------------------------------------------
(* SpecFn: the functions called directly, on inputs drawn from bounded sets *)

MaxParts == 2                     \* parts of a scored element

TypedNames == {<<"jump", "T">>, <<"jump", "Lz">>, <<"spin", "CSp">>,
               <<"seq", "StSq">>, <<"seq", "ChSq">>, <<NULL, NULL>>}
FlagNames == {"ur", "dg", "edge", "rep", "spinV", "fly", "cof", "invalid"}
GoeInputs == {0 - 3, 0, 2}

\* setUr clears dg and setDg clears ur: no part has both
FlagSets == {fs \in SUBSET FlagNames : ~({"ur", "dg"} \subseteq fs)}

MkPart(tn, lod, fs) ==
    [f \in DOMAIN NewPart |->
        IF f = "type" THEN tn[1]
        ELSE IF f = "name" THEN tn[2]
        ELSE IF f = "lod" THEN lod
        ELSE IF f \in fs THEN TRUE
        ELSE NewPart[f]]

First(p, bonus, goe) == [p EXCEPT !.bonus = bonus, !.goe = goe]

\* every element of one part
SingleEntries ==
    {<<First(MkPart(tn, lod, fs), b, g)>> :
        tn \in TypedNames, lod \in Lods, fs \in FlagSets,
        b \in BOOLEAN, g \in GoeInputs}

\* combinations: a first part followed by parts of a small catalogue
LeadParts ==
    {First(MkPart(tn, lod, fs), b, g) :
        tn \in TypedNames, lod \in {"1", "3"},
        fs \in {{}, {"ur"}, {"spinV"}}, b \in BOOLEAN, g \in GoeInputs}
RestParts ==
    {MkPart(<<"jump", "T">>, "2", {}),
     MkPart(<<"jump", "T">>, "3", {"ur"}),
     MkPart(<<"jump", "Lz">>, "3", {"ur", "edge"}),
     MkPart(<<"jump", "Lz">>, "2", {"edge", "rep"}),
     MkPart(<<"jump", "T">>, "3", {"dg"}),
     MkPart(<<"jump", "Lz">>, "3", {"invalid"}),
     MkPart(<<"spin", "CSp">>, "2", {"fly", "spinV"}),
     MkPart(<<"seq", "ChSq">>, "1", {"ur"}),
     MkPart(<<"seq", "StSq">>, "2", {}),
     NewPart}
ComboEntries ==
    UNION {{<<lead>> \o rest : lead \in LeadParts, rest \in [1..n -> RestParts]} :
              n \in 1..(MaxParts - 1)}

Entries == SingleEntries \cup ComboEntries

\* codes and property keys the lookups are probed with
ProbeCodes == Codes(TableA) \cup {"4T", "5A", "CSp3", "ChSq2", "Lz", "null"}
ProbeProps == JumpNames \cup LevelNames \cup {"ChSq", "null", "Sp"}
ProbeKeys == Lods \cup {"F" \o l : l \in Lods} \cup {"C" \o l : l \in Lods}
                  \cup {"4", "B"}

NoCall ==
    [fn |-> "none", done |-> FALSE, code |-> "", goe |-> 0, prop |-> "",
     index |-> "", ret |-> Undefined, res |-> NoResult, again |-> NoResult,
     pre |-> <<>>]

PendingLookups ==
    {[NoCall EXCEPT !.fn = "getBase", !.code = c] : c \in ProbeCodes}
    \cup {[NoCall EXCEPT !.fn = f, !.code = c, !.goe = g] :
             f \in {"getDelta", "getScore"}, c \in ProbeCodes, g \in GoeRange}
    \cup {[NoCall EXCEPT !.fn = "basevalues", !.prop = pr, !.index = k] :
             pr \in ProbeProps, k \in ProbeKeys}

InitFn ==
    /\ buffer = Buffer0
    /\ editingIndex = NullIndex
    /\ tes = Num(0) /\ pcs = Pcs0 /\ pcsFactor = PcsFactor0
    /\ pcsTotal = Num(0) /\ tss = Num(0) /\ deduct = Num(0)
    /\ dom = Dom0
    /\ app = App0
    /\ inits = <<>>
    /\ fetches = 0
    /\ \/ /\ SOV \in Tables \cup {NullSOV}
          /\ elements = <<>>
          /\ call \in PendingLookups
       \/ /\ SOV \in Tables
          /\ elements \in {<<e>> : e \in Entries}
          /\ call = [NoCall EXCEPT !.fn = "computeElementResult"]

Finish(ret) == [call EXCEPT !.done = TRUE, !.ret = ret]

DoGetBase ==
    /\ call.fn = "getBase" /\ ~call.done
    /\ call' = Finish(getBase(SOV, call.code))
    /\ UNCHANGED <<SOV, pageVars, app, inits, fetches>>

DoGetDelta ==
    /\ call.fn = "getDelta" /\ ~call.done
    /\ call' = Finish(getDelta(SOV, call.code, call.goe))
    /\ UNCHANGED <<SOV, pageVars, app, inits, fetches>>

DoGetScore ==
    /\ call.fn = "getScore" /\ ~call.done
    /\ call' = Finish(getScore(SOV, call.code, call.goe))
    /\ UNCHANGED <<SOV, pageVars, app, inits, fetches>>

DoBasevalues ==
    /\ call.fn = "basevalues" /\ ~call.done
    /\ call' = Finish(basevalues(SOV, call.prop, call.index))
    /\ UNCHANGED <<SOV, pageVars, app, inits, fetches>>

\* computeElementResult(elements[0]), and once again on the same argument;
\* a call may write to the object its argument designates
DoCompute ==
    /\ call.fn = "computeElementResult" /\ ~call.done
    /\ LET c1 == ComputeCall(SOV, elements[1])
           c2 == ComputeCall(SOV, c1.parts)
       IN /\ elements' = [elements EXCEPT ![1] = c2.parts]
          /\ call' = [call EXCEPT !.done = TRUE, !.res = c1.ret,
                                  !.again = c2.ret,
                                  !.pre = <<SOV, buffer, elements>>]
    /\ UNCHANGED <<SOV, buffer, editingIndex, tes, pcs, pcsFactor, pcsTotal,
                   tss, deduct, dom, app, inits, fetches>>

NextFn == DoGetBase \/ DoGetDelta \/ DoGetScore \/ DoBasevalues \/ DoCompute

SpecFn == InitFn /\ [][NextFn]_vars

-----------------------------------------------------------------------------
(* Claims about the scoring of one element (SpecFn)                        *)

Scored == call.fn = "computeElementResult" /\ call.done
Returned == Scored /\ call.res.k = "ok"

\* the element that was scored, as it was passed
ScoredParts == call.pre[3][1]
PartsOf(parts) == {parts[i] : i \in 1..Len(parts)}

\* the factor for under-rotation / edge / spin V, in percent
CallPercent(p) ==
    IF p.ur /\ p.edge THEN 60
    ELSE IF p.spinV THEN 75
    ELSE IF (p.ur /\ ~p.edge) \/ (p.edge /\ ~p.ur) THEN 80
    ELSE 100

\* adjusted base value of a part, rounded to two decimals
AdjustedBase(sov, p) == Round2(Times(PartBV(sov, p), CallPercent(p), 100))

\* the maximum of a set of values; not a number if one of them is not
MaxOf(vals) ==
    IF \E a \in vals : ~IsNum(a) THEN NaN
    ELSE CHOOSE m \in vals : \A a \in vals : m.v >= a.v

AllNumeric(sov, parts) == \A p \in PartsOf(parts) : IsNum(PartBV(sov, p))

\* C1 as stated (restricted to elements whose base values are all numbers,
\* where the right-hand side is a number): the returned goeValue is the
\* maximum adjusted base value times GOE x 0.1, rounded to two decimals,
\* GOE being the goe of the first part.
C1_GoeValueIsMaxAdjusted ==
    (Returned /\ AllNumeric(SOV, ScoredParts)) =>
        call.res.goeValue =
            Round2(Times(MaxOf({AdjustedBase(SOV, p) : p \in PartsOf(ScoredParts)}),
                         ScoredParts[1].goe, 10))

\* adjusted base value where a part named ChSq is taken without factor
AdjustedBaseChSq(sov, p) ==
    IF p.name = "ChSq" THEN Round2(PartBV(sov, p)) ELSE AdjustedBase(sov, p)

\* C1 amended: an element whose first part is named ChSq has goeValue
\* GOE x 0.5; any other element has goeValue 0 when GOE is 0 and otherwise
\* the maximum adjusted base value (a part named ChSq counted unadjusted)
\* times GOE x 0.1, rounded to two decimals - not a number when a part's
\* base value is undefined.
C1_GoeValueAmended ==
    Returned =>
        LET goe == ScoredParts[1].goe
        IN call.res.goeValue =
              IF ScoredParts[1].name = "ChSq" THEN Round2(Num(goe * 5 * (Unit \div 10)))
              ELSE IF goe = 0 THEN Num(0)
              ELSE Round2(Times(MaxOf({AdjustedBaseChSq(SOV, p) :
                                          p \in PartsOf(ScoredParts)}), goe, 10))

\* C1 witness: a combination whose largest adjusted base value is not the
\* first part's, scored with a non-zero GOE
C1_Witness ==
    /\ Returned
    /\ Len(ScoredParts) = 2
    /\ ScoredParts[1].name # "ChSq"
    /\ ScoredParts[1].goe # 0
    /\ AllNumeric(SOV, ScoredParts)
    /\ AdjustedBase(SOV, ScoredParts[2]).v > AdjustedBase(SOV, ScoredParts[1]).v
    /\ ScoredParts[2].ur
    /\ call.res.goeValue # Num(0)

\* a part's contribution to the base value: base x bonus x repetition x call
Contribution(sov, p, bonus) ==
    Times(Times(Times(PartBV(sov, p), IF bonus THEN 110 ELSE 100, 100),
                IF p.rep THEN 70 ELSE 100, 100),
          CallPercent(p), 100)

RECURSIVE SumOver(_, _, _)
SumOver(sov, parts, bonus) ==
    IF parts = <<>> THEN Num(0)
    ELSE Plus(Contribution(sov, Head(parts), bonus), SumOver(sov, Tail(parts), bonus))

\* the element without bonus and without repetition marks
Plain(parts) == [i \in 1..Len(parts) |-> [parts[i] EXCEPT !.bonus = FALSE, !.rep = FALSE]]

\* C2: totalBV is the rounded sum of the parts' base values, each times 1.1
\* under the first part's bonus, times 0.7 when repeated, times exactly one
\* of 0.6 / 0.75 / 0.8 / 1 for the call; bonus and repetition leave goeValue
\* as it is without them.
C2_TotalBVFactors ==
    Returned =>
        /\ call.res.totalBV = Round2(SumOver(SOV, ScoredParts, ScoredParts[1].bonus))
        /\ call.res.goeValue = computeElementResult(SOV, Plain(ScoredParts)).goeValue

\* C2 witness: a combination with bonus whose second part is a repeated jump
\* with an edge call
C2_Witness ==
    /\ Returned
    /\ Len(ScoredParts) = 2
    /\ ScoredParts[1].bonus /\ ScoredParts[1].spinV
    /\ ScoredParts[2].rep /\ ScoredParts[2].edge
    /\ IsNum(call.res.totalBV) /\ call.res.totalBV.v > 0
    /\ call.res.goeValue # Num(0)

\* the code a part designates in the reference table, "" when it designates
\* none (no or unknown name, rotation / level 0)
DesignatedCode(p) ==
    IF p.type = "jump" /\ p.name \in JumpNames
    THEN LET n == ParseInt(p.lod).v \div Unit
             r == IF p.dg /\ n # 0 THEN n - 1 ELSE n
         IN IF r = 0 THEN "" ELSE ToString(r) \o p.name
    ELSE IF p.type = "seq" /\ p.name = "StSq"
    THEN (IF p.lod = "0" THEN "" ELSE p.name \o p.lod)
    ELSE IF p.type = "spin" /\ p.name \in LevelNames \ {"StSq"}
    THEN (IF p.lod = "0" THEN ""
          ELSE IF p.cof THEN "C" \o p.name \o p.lod
          ELSE IF p.fly THEN "F" \o p.name \o p.lod
          ELSE p.name \o p.lod)
    ELSE ""

MissingCode(sov, p) ==
    ~p.invalid /\ DesignatedCode(p) # "" /\ DesignatedCode(p) \notin Codes(sov)

KnownNames == JumpNames \cup LevelNames \cup {"ChSq"}

\* C4 as stated: scoring an element with a non-invalid part whose code is
\* not in the reference table ends in a thrown error.
C4_MissingCodeThrows ==
    (Scored /\ \E p \in PartsOf(ScoredParts) : MissingCode(SOV, p)) =>
        call.res.k = "throw"

\* the element with every part of a missing spin / sequence code marked invalid
MissingLevelsInvalid(sov, parts) ==
    [i \in 1..Len(parts) |->
        IF MissingCode(sov, parts[i]) /\ parts[i].type # "jump"
        THEN [parts[i] EXCEPT !.invalid = TRUE]
        ELSE parts[i]]

\* C4 amended: a missing code is never thrown.  Scoring throws exactly when
\* a non-invalid part has a name that is none of the element names (such as
\* the null name of a part just added by addJump); a jump whose code is
\* missing makes totalBV and totalScore not a number, and a spin or step
\* sequence whose code is missing scores as base value 0, as if invalid.
C4_MissingCodeAmended ==
    Scored =>
        /\ call.res.k = "throw" <=>
              \E p \in PartsOf(ScoredParts) : ~p.invalid /\ p.name \notin KnownNames
        /\ (Returned /\ \E p \in PartsOf(ScoredParts) :
                            MissingCode(SOV, p) /\ p.type = "jump")
              => call.res.totalBV = NaN /\ call.res.totalScore = NaN
        /\ Returned =>
              call.res = computeElementResult(SOV, MissingLevelsInvalid(SOV, ScoredParts))

\* C4 witness: a triple toe loop scored against a table without 3T, and a
\* result returned
C4_Witness ==
    /\ Returned
    /\ Len(ScoredParts) = 1
    /\ ScoredParts[1].name = "T" /\ ScoredParts[1].lod = "3"
    /\ MissingCode(SOV, ScoredParts[1])
    /\ call.res.totalBV = NaN

\* C6: getDelta(code, 0) is 0 for every code, and an element whose first
\* part has goe 0 gets goeValue 0, so that totalScore is totalBV.
C6_ZeroGoeZeroDelta ==
    /\ (call.fn = "getDelta" /\ call.done /\ call.goe = 0) => call.ret = Num(0)
    /\ (Returned /\ ScoredParts[1].goe = 0) =>
          /\ call.res.goeValue = Num(0)
          /\ call.res.totalScore = call.res.totalBV

\* C6 witness: getDelta with GOE 0 for a code of the table
C6_Witness ==
    /\ call.fn = "getDelta" /\ call.done /\ call.goe = 0
    /\ call.code \in Codes(SOV)
    /\ call.ret = Num(0)

\* C8: a call of computeElementResult leaves the reference table, the
\* buffer and the elements list (its argument among them) as they were, and
\* a second call on the same argument returns the same result.
C8_ComputeIsPure ==
    Scored =>
        /\ <<SOV, buffer, elements>> = call.pre
        /\ call.again = call.res

\* C8 witness: an element scored to a non-zero base value (the call wrote
\* bv and both derived values on its working copy)
C8_Witness ==
    /\ Returned
    /\ IsNum(call.res.totalBV) /\ call.res.totalBV.v > 0
    /\ elements[1][1].bv = Num(0)

-----------------------------------------------------------------------------
(* Claims about the lookups (SpecFn)                                       *)

Looked(fn) == call.fn = fn /\ call.done
UnknownCode == call.code \notin Codes(SOV)

\* C5 as stated: for a code that is no key of the table and any GOE in
\* -5..5, getBase, getDelta and getScore each raise an error.
C5_UnknownCodeRaises ==
    ((Looked("getBase") \/ Looked("getDelta") \/ Looked("getScore"))
        /\ UnknownCode /\ call.goe \in GoeRange)
    => IsThrown(call.ret)

\* C5 amended: for a code that is no key of the table, getBase raises an
\* error, getScore raises an error for every GOE in -5..5, and getDelta
\* raises an error for every GOE in -5..5 other than 0; getDelta(code, 0)
\* returns 0.
C5_UnknownCodeAmended ==
    /\ ((Looked("getBase") \/ Looked("getScore")) /\ UnknownCode)
          => IsThrown(call.ret)
    /\ (Looked("getDelta") /\ UnknownCode /\ call.goe \in GoeRange \ {0})
          => IsThrown(call.ret)
    /\ (Looked("getDelta") /\ UnknownCode /\ call.goe = 0)
          => call.ret = Num(0)

\* C5 witness: getDelta of an unknown code with GOE 0 has returned
C5_Witness ==
    /\ Looked("getDelta") /\ UnknownCode /\ call.goe = 0
    /\ SOV.kind = "table"
    /\ ~IsThrown(call.ret)

BaseOf(code) == SOV.elements[code].base
AdapterCalled == Looked("basevalues") /\ SOV.kind = "table"
SpinNames == LevelNames \ {"StSq"}

\* C7: getBase of a code of the table returns its base value, and the
\* adapter returns the same: basevalues[jump][n] for code n+jump (n >= 1),
\* basevalues[spin][level] for spin+level, basevalues[spin]['F'/'C'+level]
\* for 'F'/'C'+spin+level, basevalues['StSq'][level] for 'StSq'+level;
\* rotation 0 and level 0 yield 0.
C7_KnownCodesGiveBase ==
    /\ (Looked("getBase") /\ ~UnknownCode) => call.ret = BaseOf(call.code)
    /\ AdapterCalled =>
          /\ \A n \in 1..9 :
                (call.prop \in JumpNames /\ call.index = ToString(n)
                    /\ ToString(n) \o call.prop \in Codes(SOV))
                => call.ret = BaseOf(ToString(n) \o call.prop)
          /\ \A l \in Lods \ {"0"} :
                /\ (call.prop \in SpinNames \cup {"StSq"} /\ call.index = l
                       /\ call.prop \o l \in Codes(SOV))
                   => call.ret = BaseOf(call.prop \o l)
                /\ \A m \in {"F", "C"} :
                      (call.prop \in SpinNames /\ call.index = m \o l
                          /\ m \o call.prop \o l \in Codes(SOV))
                      => call.ret = BaseOf(m \o call.prop \o l)
          /\ (call.prop \in JumpNames \cup LevelNames /\ call.index = "0")
                => call.ret = Num(0)
          /\ (call.prop \in SpinNames /\ call.index \in {"F0", "C0"})
                => call.ret = Num(0)

\* C7 witness: the flying camel spin of level 2 read through the adapter
C7_Witness ==
    /\ AdapterCalled
    /\ call.prop = "CSp" /\ call.index = "F2"
    /\ "FCSp2" \in Codes(SOV)
    /\ call.ret = BaseOf("FCSp2")

-----------------------------------------------------------------------------
(* Loading the reference document (basevalues.js:7-25, part_000:40-52)     *)

MaxInits == 3                     \* invocations of initSOV in SpecInit

\* what a fetch of the document can come to, and what res.json() can: a
\* rejection (the body is no JSON), the JSON document null, or a table
FetchOutcomes == {"reject", "notOk", "ok"}
NoJson == [kind |-> "reject", elements |-> <<>>]
JsonOutcomes == {NoJson, NullSOV, TableA, TableB}

Invocation(pc, why) == [pc |-> pc, why |-> why]

\* initSOV() up to its first await: returns at once when SOV is set (line
\* 8), else issues the fetch (line 12)
InitSOVCall ==
    IF SOV # NullSOV
    THEN /\ inits' = Append(inits, Invocation("resolved", "loaded"))
         /\ fetches' = fetches
    ELSE /\ inits' = Append(inits, Invocation("fetching", ""))
         /\ fetches' = fetches + 1

\* the fetch of invocation i settles (lines 12-17, 21-24)
FetchSettles(i, outcome) ==
    /\ i \in DOMAIN inits /\ inits[i].pc = "fetching"
    /\ inits' = [inits EXCEPT ![i] =
                    IF outcome = "reject" THEN Invocation("rejected", "fetch")
                    ELSE IF outcome = "notOk" THEN Invocation("rejected", "status")
                    ELSE Invocation("parsing", "")]
    /\ UNCHANGED <<SOV, pageVars, app, fetches, call>>

\* what line 19-20 leave: the value assigned to SOV and how the call ends
JsonResult(outcome) ==
    IF outcome.kind = "reject" THEN [assign |-> FALSE, sov |-> NullSOV, why |-> "json"]
    ELSE IF outcome.kind = "null" THEN [assign |-> TRUE, sov |-> NullSOV, why |-> "null"]
    ELSE [assign |-> TRUE, sov |-> outcome, why |-> ""]

\* res.json() of invocation i settles (lines 19-24); reading SOV.elements
\* of a null document is a TypeError, caught and rethrown
JsonSettles(i, outcome) ==
    /\ i \in DOMAIN inits /\ inits[i].pc = "parsing"
    /\ LET r == JsonResult(outcome)
       IN /\ SOV' = IF r.assign THEN r.sov ELSE SOV
          /\ inits' = [inits EXCEPT ![i] =
                          IF r.why = "" THEN Invocation("resolved", "fetched")
                          ELSE Invocation("rejected", r.why)]
    /\ UNCHANGED <<pageVars, app, fetches, call>>

\* the page's DOMContentLoaded handler starts and awaits initSOV()
DOMContentLoaded ==
    /\ app.pc = "start"
    /\ InitSOVCall
    /\ app' = [app EXCEPT !.pc = "awaiting"]
    /\ UNCHANGED <<SOV, pageVars, call>>

\* initApp(), part_000:54-94: handlers registered, four buttons disabled
InitAppDom == [dom EXCEPT !.addElement = FALSE, !.addJump = FALSE,
                          !.setEdge = FALSE, !.setSpinV = FALSE]

\* a handler without the try/catch of lines 41-51 around initApp()
HandlerAfterUnguarded(settled) ==
    [app EXCEPT !.pc = "ready", !.initApp = TRUE]

\* lines 43-51: how the handler goes on once initSOV() has settled
HandlerAfter(settled) ==
    IF settled = "resolved"
    THEN [app EXCEPT !.pc = "ready", !.initApp = TRUE]
    ELSE [app EXCEPT !.pc = "failed", !.alerted = TRUE]

\* the handler resumes after its await (invocation 1 is the handler's)
HandlerResumes ==
    /\ app.pc = "awaiting"
    /\ inits[1].pc \in {"resolved", "rejected"}
    /\ app' = HandlerAfter(inits[1].pc)
    /\ dom' = IF app'.initApp THEN InitAppDom ELSE dom
    /\ UNCHANGED <<SOV, buffer, elements, editingIndex, tes, pcs, pcsFactor,
                   pcsTotal, tss, deduct, inits, fetches, call>>

\* window.initSOV() called by another script of the page
OtherInitSOV ==
    /\ Len(inits) < MaxInits
    /\ app.pc # "start"
    /\ InitSOVCall
    /\ UNCHANGED <<SOV, pageVars, app, call>>

InitPage ==
    /\ SOV = NullSOV
    /\ PageUntouched
    /\ app = App0
    /\ inits = <<>>
    /\ fetches = 0
    /\ call = NoCall

NextInit ==
    \/ DOMContentLoaded
    \/ OtherInitSOV
    \/ \E i \in 1..MaxInits, o \in FetchOutcomes : FetchSettles(i, o)
    \/ \E i \in 1..MaxInits, o \in JsonOutcomes : JsonSettles(i, o)
    \/ HandlerResumes

SpecInit == InitPage /\ [][NextInit]_vars

\* C9 as stated: however initSOV is invoked, at most one fetch of the
\* reference document is issued, and SOV, once set, is never assigned again.
C9_LoadedOnce ==
    [][fetches' <= 1 /\ (SOV # NullSOV => SOV' = SOV)]_vars

-----------------------------------------------------------------------------
(* part_000: the form.  A handler runs only once initApp has registered it *)
(* and, for a button, only while the button is enabled.                    *)

MaxRows == 2                      \* rows of the elements table
MaxEdits == 2                     \* inputs to the entry (a part added included) and to the scores

\* The page's markup is not among the sources.  setType (lines 262-290)
\* gives the last part the type of the tab pane that holds the pressed
\* button, so the model fixes a pane for every button: a name in the pane of
\* its kind, the jump marks in the jump pane, the spin marks in the spin
\* pane, the level buttons in each pane (lines 255-257), and bonus and
\* invalid in none of the jump or spin panes.
Panes == {"jmp", "sp", "seq"}
NameButtons == {<<"jmp", "Lz">>, <<"sp", "CSp">>, <<"seq", "StSq">>}
LodButtons == {"2"}
GoeButtons == {2}
JumpMarkPane == "jmp"
SpinMarkPane == "sp"
CommonMarkPane == "seq"
PcsInputs == {Cents(725), Cents(1050)}
FactorInputs == {Cents(80)}

Registered == app.initApp
CanEdit == Registered /\ app.edits < MaxEdits
Edited == [app EXCEPT !.edits = app.edits + 1]

\* a * b of two numbers of at most two decimals
Mul(a, b) ==
    IF IsNum(a) /\ IsNum(b)
    THEN Num(((a.v \div Cent) * (b.v \div Cent)) * 100)
    ELSE NaN

\* an array slot that holds undefined (no list of parts)
Hole == <<>>

\* lines 162-169
updatePCS(p, factor) ==
    Round2(Mul(Plus(Plus(Plus(Plus(Plus(Num(0), p[0]), p[1]), p[2]), p[3]), p[4]),
               factor))

RECURSIVE SumCells(_)
SumCells(cells) ==
    IF cells = <<>> THEN Num(0) ELSE Plus(SumCells(Tail(cells)), Head(cells))

\* lines 702-708: the sum of the element-score cells of the page
updateTES(rows) == Round2(SumCells(rows))

\* lines 127-135, as the values of <<pcsTotal, tes, tss>>
updateTSS(p, factor, rows) ==
    LET pt == updatePCS(p, factor)
        t == updateTES(rows)
    IN <<pt, t, Round2(Plus(Plus(t, pt), deduct))>>

\* lines 141-158, one row: getElementDisplayText reads parts.length, which
\* throws for undefined; the score cell shows totalScore.toFixed(2)
RowResult(sov, parts) ==
    IF parts = Hole THEN NoResult ELSE computeElementResult(sov, parts)

\* lines 141-158 of renderElements, res being the results of the rows: the
\* score cells put on the page, or thrown when a row cannot be scored (the
\* page is then left as it was)
Rendered(res) ==
    IF \E i \in DOMAIN res : res[i].k = "throw"
    THEN [thrown |-> TRUE, rows |-> <<>>]
    ELSE [thrown |-> FALSE, rows |-> [i \in DOMAIN res |-> res[i].totalScore]]

\* lines 138-160
renderElements(sov, els) ==
    Rendered([i \in 1..Len(els) |-> RowResult(sov, els[i])])

\* the tail every row operation shares, r being what renderElements() did:
\* updateTSS(); and, for addElement, clearEntry() - none of it once the
\* rendering threw
Rerendered(els, thenClear, r) ==
    /\ elements' = els
    /\ IF r.thrown
       THEN UNCHANGED <<buffer, editingIndex, tes, pcsTotal, tss, dom>>
       ELSE /\ \E t \in {updateTSS(pcs, pcsFactor, r.rows)} :
                 /\ pcsTotal' = t[1]
                 /\ tes' = t[2]
                 /\ tss' = t[3]
            /\ IF thenClear
               THEN /\ buffer' = <<NewPart>>
                    /\ editingIndex' = NullIndex
                    /\ dom' = [dom EXCEPT !.rows = r.rows,
                                          !.addElement = FALSE,
                                          !.addJump = FALSE,
                                          !.setEdge = FALSE,
                                          !.setSpinV = TRUE]
               ELSE /\ dom' = [dom EXCEPT !.rows = r.rows]
                    /\ UNCHANGED <<buffer, editingIndex>>
    /\ UNCHANGED <<SOV, pcs, pcsFactor, deduct, app, inits, fetches, call>>

\* renderElements(); updateTSS(); and clearEntry() after addElement
Rerender(els, thenClear) == Rerendered(els, thenClear, renderElements(SOV, els))

PaneType(pane) == IF pane = "jmp" THEN "jump" ELSE IF pane = "sp" THEN "spin" ELSE "seq"

Last(b) == b[Len(b)]

\* lines 253-327, setType(node) on the buffer: the last part takes the type
\* of the pane the pressed button sits in
setTypeBuffer(b, pane) == [b EXCEPT ![Len(b)].type = PaneType(pane)]

\* lines 253-327, setType(node) on the buttons, b being the buffer after it
setTypeDom(b) ==
    LET p == Last(b)
    IN [dom EXCEPT
          !.setSpinV = p.cof \/ p.fly,
          !.addJump = TRUE,
          !.setEdge = p.name \in {"Lz", "F"},
          !.addElement = /\ ~(p.name \in {"ChSq", "Eu"} /\ p.lod \notin {"0", "1"})
                         /\ p.name # NULL]

\* a handler that changes the buffer to b and then calls setType(this)
EditBuffer(b, pane) ==
    /\ CanEdit
    /\ buffer' = setTypeBuffer(b, pane)
    /\ dom' = setTypeDom(buffer')
    /\ app' = Edited
    /\ UNCHANGED <<SOV, elements, editingIndex, tes, pcs, pcsFactor, pcsTotal,
                   tss, deduct, inits, fetches, call>>

Toggle(b, i, f) == [b EXCEPT ![i][f] = ~b[i][f]]

\* lines 246-251; nb is the name button, <<pane, name>>
setName(nb) ==
    EditBuffer([buffer EXCEPT ![Len(buffer)].name = nb[2]], nb[1])

\* lines 332-353.  Which level buttons are enabled is not modelled: every
\* pair of name and level can be entered by pressing the level first, while
\* the part has no name and all level buttons are enabled (lines 101-104).
setLOD(pane, lod) ==
    EditBuffer([buffer EXCEPT ![Len(buffer)].lod = lod], pane)

\* lines 355-360
setUr ==
    EditBuffer([Toggle(buffer, Len(buffer), "ur") EXCEPT ![Len(buffer)].dg = FALSE], JumpMarkPane)

\* lines 362-368
setDg ==
    EditBuffer([Toggle(buffer, Len(buffer), "dg") EXCEPT ![Len(buffer)].ur = FALSE], JumpMarkPane)

\* lines 370-374
setEdge ==
    /\ dom.setEdge
    /\ EditBuffer(Toggle(buffer, Len(buffer), "edge"), JumpMarkPane)

\* lines 377-381
setREP == EditBuffer(Toggle(buffer, Len(buffer), "rep"), JumpMarkPane)

\* lines 383-387: the bonus is a mark of the first part
setBonus == EditBuffer(Toggle(buffer, 1, "bonus"), CommonMarkPane)

\* lines 389-393
setInvalid == EditBuffer(Toggle(buffer, Len(buffer), "invalid"), CommonMarkPane)

\* lines 395-399
setFly == EditBuffer(Toggle(buffer, Len(buffer), "fly"), SpinMarkPane)

\* lines 401-405
setSpinV ==
    /\ dom.setSpinV
    /\ EditBuffer(Toggle(buffer, Len(buffer), "spinV"), SpinMarkPane)

\* lines 407-411
setCOF == EditBuffer(Toggle(buffer, Len(buffer), "cof"), SpinMarkPane)

\* lines 413-416: the GOE is a property of the first part; no setType
setGOE(g) ==
    /\ CanEdit
    /\ buffer' = [buffer EXCEPT ![1].goe = g]
    /\ app' = Edited
    /\ UNCHANGED <<SOV, elements, editingIndex, tes, pcs, pcsFactor, pcsTotal,
                   tss, deduct, dom, inits, fetches, call>>

\* lines 418-440
addJump ==
    /\ CanEdit /\ dom.addJump
    /\ Len(buffer) < MaxParts
    /\ buffer' = Append(buffer, NewPart)
    /\ dom' = [dom EXCEPT !.addJump = FALSE]
    /\ app' = Edited
    /\ UNCHANGED <<SOV, elements, editingIndex, tes, pcs, pcsFactor, pcsTotal,
                   tss, deduct, inits, fetches, call>>

\* lines 520-564
clearEntry ==
    /\ Registered
    /\ buffer' = <<NewPart>>
    /\ editingIndex' = NullIndex
    /\ dom' = [dom EXCEPT !.addElement = FALSE, !.addJump = FALSE,
                          !.setEdge = FALSE, !.setSpinV = TRUE]
    /\ UNCHANGED <<SOV, elements, tes, pcs, pcsFactor, pcsTotal, tss, deduct,
                   app, inits, fetches, call>>

\* elements[idx] = v for a 0-based idx: slots skipped beyond the end of the
\* array hold undefined
AssignAt(els, idx, v) ==
    IF idx < Len(els) THEN [els EXCEPT ![idx + 1] = v]
    ELSE [i \in 1..(idx + 1) |->
            IF i <= Len(els) THEN els[i] ELSE IF i = idx + 1 THEN v ELSE Hole]

\* lines 568-574: the elements list with the snapshot of the buffer stored
StoreSnapshot(els, idx, b) ==
    IF idx # NullIndex THEN AssignAt(els, idx, JSONClone(b))
    ELSE Append(els, JSONClone(b))

\* lines 566-580
addElement ==
    /\ Registered /\ dom.addElement
    /\ editingIndex = NullIndex => Len(elements) < MaxRows
    /\ Rerender(StoreSnapshot(elements, editingIndex, buffer), TRUE)

\* the rows of the page, by their data-index
DomRows == 0..(Len(dom.rows) - 1)

\* elements.splice(idx, 1) for a 0-based idx
Splice1(els, idx) ==
    IF idx >= Len(els) THEN els
    ELSE [i \in 1..(Len(els) - 1) |-> IF i <= idx THEN els[i] ELSE els[i + 1]]

\* elements.splice(idx, 0, row): a start beyond the end appends
SpliceIn(els, idx, row) ==
    LET at == IF idx > Len(els) THEN Len(els) ELSE idx
    IN [i \in 1..(Len(els) + 1) |->
          IF i <= at THEN els[i] ELSE IF i = at + 1 THEN row ELSE els[i - 1]]

\* an edit button that takes the row out of the list instead of copying it
onEditRowTakes(idx) ==
    /\ Registered
    /\ idx \in DomRows
    /\ idx < Len(elements) /\ elements[idx + 1] # Hole
    /\ buffer' = JSONClone(elements[idx + 1])
    /\ editingIndex' = idx
    /\ elements' = Splice1(elements, idx)
    /\ dom' = [dom EXCEPT !.addElement = TRUE, !.addJump = TRUE]
    /\ UNCHANGED <<SOV, tes, pcs, pcsFactor, pcsTotal, tss, deduct,
                   app, inits, fetches, call>>

\* lines 711-724.  JSON.stringify of an undefined slot gives undefined and
\* JSON.parse throws on it: the handler then ends with nothing changed.
onEditRow(idx) ==
    /\ Registered
    /\ idx \in DomRows
    /\ idx < Len(elements) /\ elements[idx + 1] # Hole
    /\ buffer' = JSONClone(elements[idx + 1])
    /\ editingIndex' = idx
    /\ dom' = [dom EXCEPT !.addElement = TRUE, !.addJump = TRUE]
    /\ UNCHANGED <<SOV, elements, tes, pcs, pcsFactor, pcsTotal, tss, deduct,
                   app, inits, fetches, call>>

\* lines 852-859
onDeleteRow(idx) ==
    /\ Registered
    /\ idx \in DomRows
    /\ Rerender(Splice1(elements, idx), FALSE)

\* lines 730-751: a row dragged from position src and dropped on the row at
\* position dst.  The browser delivers no other input between dragstart and
\* drop, so the two handlers are one step.
onDrop(src, dst) ==
    /\ Registered
    /\ src \in DomRows /\ dst \in DomRows /\ src # dst
    /\ LET row == IF src < Len(elements) THEN elements[src + 1] ELSE Hole
       IN Rerender(SpliceIn(Splice1(elements, src), dst, row), FALSE)

\* the tail of the score handlers: updateTSS() with the new scores
Retotal(p, factor) ==
    LET t == updateTSS(p, factor, dom.rows)
    IN /\ CanEdit
       /\ pcs' = p
       /\ pcsFactor' = factor
       /\ pcsTotal' = t[1]
       /\ tes' = t[2]
       /\ tss' = t[3]
       /\ app' = Edited
       /\ UNCHANGED <<SOV, buffer, elements, editingIndex, deduct, dom, inits,
                      fetches, call>>

Ten == Num(10 * Unit)

\* lines 176-188, 190-202, 204-216, 232-244: a value above 10 is stored as 10
Capped(v) == IF IsNum(v) /\ v.v > Ten.v THEN Ten ELSE v

updateSS(v) == Retotal([pcs EXCEPT ![0] = Capped(v)], pcsFactor)
updateTR(v) == Retotal([pcs EXCEPT ![1] = Capped(v)], pcsFactor)
updatePR(v) == Retotal([pcs EXCEPT ![2] = Capped(v)], pcsFactor)
\* lines 218-230: both branches store parseFloat(this.value)
updateCO(v) == Retotal([pcs EXCEPT ![3] = v], pcsFactor)
updateIN(v) == Retotal([pcs EXCEPT ![4] = Capped(v)], pcsFactor)

\* lines 171-174
updateFactor(v) == Retotal(pcs, v)

Init == InitPage

Next ==
    \/ DOMContentLoaded
    \/ \E o \in FetchOutcomes : FetchSettles(1, o)
    \/ \E o \in {NoJson, NullSOV, TableC} : JsonSettles(1, o)
    \/ HandlerResumes
    \/ \E nb \in NameButtons : setName(nb)
    \/ \E pane \in Panes, lod \in LodButtons : setLOD(pane, lod)
    \/ setUr
    \/ setDg
    \/ setEdge
    \/ setREP
    \/ setBonus
    \/ setInvalid
    \/ setFly
    \/ setSpinV
    \/ setCOF
    \/ \E g \in GoeButtons : setGOE(g)
    \/ addJump
    \/ clearEntry
    \/ addElement
    \/ \E idx \in 0..(MaxRows - 1) : onEditRow(idx)
    \/ \E idx \in 0..(MaxRows - 1) : onDeleteRow(idx)
    \/ \E src \in 0..(MaxRows - 1), dst \in 0..(MaxRows - 1) : onDrop(src, dst)
    \/ \E v \in PcsInputs : updateSS(v)
    \/ \E v \in PcsInputs : updateTR(v)
    \/ \E v \in PcsInputs : updatePR(v)
    \/ \E v \in PcsInputs : updateCO(v)
    \/ \E v \in PcsInputs : updateIN(v)
    \/ \E v \in FactorInputs : updateFactor(v)

Spec == Init /\ [][Next]_vars

-----------------------------------------------------------------------------
(* Claims about the page                                                   *)

\* the scores of the rows of elements, as computeElementResult gives them
RowScores == [i \in 1..Len(elements) |-> RowResult(SOV, elements[i])]

AllScorable == \A i \in 1..Len(elements) : RowScores[i].k = "ok"

ElementsTotal ==
    Round2(SumCells([i \in 1..Len(elements) |-> RowScores[i].totalScore]))

\* C3 as stated: whatever rows have been added, replaced, deleted or
\* reordered, tes is the sum of computeElementResult(row).totalScore over the
\* rows of elements, rounded to two decimals, and tss is tes + pcsTotal +
\* deduct, rounded to two decimals.
C3_TotalsFollowElements ==
    Registered =>
        /\ AllScorable
        /\ tes = ElementsTotal
        /\ tss = Round2(Plus(Plus(tes, pcsTotal), deduct))

LoadFailed == inits # <<>> /\ inits[1].pc = "rejected"

\* C10: when the load of the page fails (the fetch rejects, the status is
\* not OK, the body is not JSON or not a document), initSOV rejects, SOV
\* stays null, initApp is not run, so that no handler is registered and the
\* page's scoring state stays as constructed; once the DOMContentLoaded
\* handler has resumed, the user has been alerted.
C10_LoadFailureStopsThePage ==
    /\ LoadFailed =>
          /\ inits[1].why \in {"fetch", "status", "json", "null"}
          /\ SOV = NullSOV
          /\ ~Registered
          /\ PageUntouched
          /\ app.edits = 0
          /\ app.pc \in {"awaiting", "failed"}
          /\ app.pc = "failed" => app.alerted
    /\ app.pc = "failed" => LoadFailed
    /\ app.alerted => LoadFailed

\* the handler has resumed after a body that was not JSON
C10_Witness ==
    /\ LoadFailed /\ inits[1].why = "json"
    /\ app.pc = "failed" /\ app.alerted

\* a step of one of the three row operations
RowStep ==
    \/ addElement
    \/ \E idx \in 0..(MaxRows - 1) : onDeleteRow(idx)
    \/ \E src \in 0..(MaxRows - 1), dst \in 0..(MaxRows - 1) : onDrop(src, dst)

\* C11: the rows of elements are snapshots of the buffer: a step that
\* changes elements (its length or the content of a row) is a step of
\* addElement, onDeleteRow or a drop; the buffer operations (setName ...
\* setGOE, addJump, clearEntry, onEditRow) leave the list as it is.
C11_RowsAreSnapshots ==
    [][elements' # elements => RowStep]_vars

\* a row loaded by onEditRow, and the buffer edited since
C11_Witness ==
    /\ editingIndex # NullIndex /\ editingIndex < Len(elements)
    /\ elements[editingIndex + 1] # Hole
    /\ buffer # JSONClone(elements[editingIndex + 1])

\* C12 as stated: editingIndex is null or an index of elements
\* (0 <= editingIndex < elements.length), whatever rows have been deleted
\* or reordered since onEditRow set it.
C12_EditingIndexValid ==
    editingIndex = NullIndex
        \/ (0 <= editingIndex /\ editingIndex < Len(elements))

\* the list addElement builds from the buffer, and whether scoring it throws
Stored == StoreSnapshot(elements, editingIndex, buffer)

ScoringFails == renderElements(SOV, Stored).thrown

\* C13 as stated: addElement is all-or-nothing.  When scoring the stored
\* snapshot throws, elements, tes and tss are as before the call; otherwise
\* the snapshot is stored, the buffer is a single default part and
\* editingIndex is null.
C13_AddElementAllOrNothing ==
    [][addElement =>
         IF ScoringFails
         THEN elements' = elements /\ tes' = tes /\ tss' = tss
         ELSE /\ elements' = Stored
              /\ buffer' = <<NewPart>>
              /\ editingIndex' = NullIndex]_vars

Fifty == Num(50 * Unit)

=============================================================================
